---- MODULE Spec2Model ----
(***************************************************************************)
(* Transaction dashboard: the express/mongoose backend of src/app.js (the  *)
(* Transaction collection, /api/initialize, /api/transactions,             *)
(* /api/statistics, /api/bar-chart, /api/pie-chart, /api/combined-data)    *)
(* and the React component of src/TransactionDashboard.js.                 *)
(*                                                                         *)
(* Strings are sequences of one-character strings.  An optional query      *)
(* parameter is a sequence of length 0 (absent) or 1 (given).              *)
(***************************************************************************)
EXTENDS Integers, Sequences, FiniteSets, TLC

VARIABLES
    Transaction,    \* the mongoose collection, in storage order
    res,            \* SpecViews: the last response sent by a handler
    handlers,       \* SpecServer: the requests in flight on the server
    searchQuery, selectedMonth, currentPage, totalPages, transactions,
                    \* SpecDashboard: the component's useState cells
    inflight,       \* SpecDashboard: fetchTransactions calls awaiting fetch
    fetchFailed     \* SpecDashboard: some fetchTransactions call was caught

dashVars == <<searchQuery, selectedMonth, currentPage, totalPages,
              transactions, inflight, fetchFailed>>
vars == <<Transaction, res, handlers, searchQuery, selectedMonth, currentPage,
          totalPages, transactions, inflight, fetchFailed>>

----------------------------------------------------------------------------
(* Bounds of the model *)

MaxRecords == 3     \* longest collection drawn in SpecViews
MaxSearchLen == 2   \* longest search text
MaxPage == 2        \* largest page asked for
MaxPerPage == 2     \* largest perPage asked for
MaxRequests == 2    \* SpecServer: requests clients send in one behaviour
MaxHandlers == 5    \* SpecServer: handlers started in one behaviour
MaxInflight == 3    \* SpecDashboard: fetchTransactions calls awaiting fetch

----------------------------------------------------------------------------
(* Documents of the collection (transactionSchema) *)

Doc(t, d, p, c, s, y, m) ==
    [title |-> t, description |-> d, price |-> p, category |-> c,
     sold |-> s, dateOfSale |-> [year |-> y, month |-> m]]

\* Documents the external source may serve.  They differ in every field a
\* query reads: price on both sides of the bucket boundaries, sold both ways,
\* categories that differ only in case, the same month in two years.
Doc1 == Doc(<<"a", "b">>, <<"b">>,      1,   "men", TRUE,  2021, 3)
Doc2 == Doc(<<"A">>,      <<"b">>,      150, "Men", FALSE, 2022, 3)
Doc3 == Doc(<<"b">>,      <<"a", ".">>, 950, "men", TRUE,  2021, 4)
Doc4 == Doc(<<"1", "1">>, <<"B">>,      0,   "toy", FALSE, 2022, 4)
Catalogue == {Doc1, Doc2, Doc3, Doc4}

\* twelve documents of one month: more than one page of the default perPage
TwelveDocs == [i \in 1..12 |-> Doc1]

\* payloads the external source of /api/initialize may serve
Datasets == { <<Doc1, Doc2>>, <<Doc2, Doc3>> }

SeqsUpTo(S, n) == UNION { [1..k -> S] : k \in 0..n }

Months == {3, 4}
MonthParams == {<<>>} \cup { <<m>> : m \in Months }
SearchChars == {"A", "1", "."}
SearchTexts == SeqsUpTo(SearchChars, MaxSearchLen)
PageParams == {<<>>, <<5>>} \cup { <<p>> : p \in 1..MaxPage }
PerPageParams == {<<>>} \cup { <<p>> : p \in 1..MaxPerPage }

----------------------------------------------------------------------------
(* JavaScript and MongoDB primitives the handlers use *)

Min(a, b) == IF a < b THEN a ELSE b

\* Math.ceil(a / b) for a >= 0, b >= 1
Ceil(a, b) == (a + b - 1) \div b

RECURSIVE Pow10(_)
Pow10(n) == IF n = 0 THEN 1 ELSE 10 * Pow10(n - 1)

Digits == {"0", "1", "2", "3", "4", "5", "6", "7", "8", "9"}
DigitVal(c) ==
    CASE c = "0" -> 0 [] c = "1" -> 1 [] c = "2" -> 2 [] c = "3" -> 3
      [] c = "4" -> 4 [] c = "5" -> 5 [] c = "6" -> 6 [] c = "7" -> 7
      [] c = "8" -> 8 [] c = "9" -> 9

\* length of the run of digits of s that starts at position i
RECURSIVE DigitRun(_, _)
DigitRun(s, i) ==
    IF i <= Len(s) /\ s[i] \in Digits THEN 1 + DigitRun(s, i + 1) ELSE 0

RECURSIVE DigitsValue(_)
DigitsValue(s) ==
    IF s = <<>> THEN 0
    ELSE 10 * DigitsValue(SubSeq(s, 1, Len(s) - 1)) + DigitVal(s[Len(s)])

\* parseFloat: the value of the longest prefix that is a decimal literal
\* (digits, then an optional point and digits), NaN when there is none.
\* The number is mant / 10^scale.
ParseFloat(s) ==
    LET intLen == DigitRun(s, 1)
        hasDot == intLen < Len(s) /\ s[intLen + 1] = "."
        fracLen == IF hasDot THEN DigitRun(s, intLen + 2) ELSE 0
    IN  IF intLen = 0 /\ fracLen = 0
        THEN [nan |-> TRUE, mant |-> 0, scale |-> 0]
        ELSE [nan |-> FALSE,
              mant |-> DigitsValue(SubSeq(s, 1, intLen)
                                   \o SubSeq(s, intLen + 2, intLen + 1 + fracLen)),
              scale |-> fracLen]

\* x || 0 on a number: NaN and 0 are falsy
OrZero(x) == IF x.nan \/ x.mant = 0 THEN [nan |-> FALSE, mant |-> 0, scale |-> 0] ELSE x

\* parseInt of a query parameter that is absent (undefined) or an integer
ParseInt(param) ==
    IF param = <<>> THEN [nan |-> TRUE, val |-> 0] ELSE [nan |-> FALSE, val |-> param[1]]

\* the case folding of $options: 'i'
Lower(c) == CASE c = "A" -> "a" [] c = "B" -> "b" [] OTHER -> c

\* one pattern character against one text character: '.' is the regular
\* expression wildcard, every other character of SearchChars is a literal
CharMatch(pc, tc) == pc = "." \/ Lower(pc) = Lower(tc)

\* { field: { $regex: pattern, $options: 'i' } }: the pattern matches
\* somewhere in the text (unanchored)
RegexMatch(text, pattern) ==
    \E i \in 0..(Len(text) - Len(pattern)) :
        \A k \in 1..Len(pattern) : CharMatch(pattern[k], text[i + k])

\* { price: x } for a number x = mant / 10^scale
PriceEq(price, x) == ~x.nan /\ price * Pow10(x.scale) = x.mant

\* { $eq: [{ $month: '$dateOfSale' }, n] }
MonthExpr(doc, n) == ~n.nan /\ doc.dateOfSale.month = n.val

RECURSIVE SumSeq(_)
SumSeq(s) == IF s = <<>> THEN 0 ELSE s[1] + SumSeq(Tail(s))

\* how many elements of s satisfy Test
Count(s, Test(_)) == Cardinality({ i \in 1..Len(s) : Test(s[i]) })

----------------------------------------------------------------------------
(* GET /api/transactions *)

\* the query object: $expr when month is truthy, $or when search is truthy
Query(month, search) ==
    [expr |-> IF month # <<>> THEN <<ParseInt(month)>> ELSE <<>>,
     or   |-> IF search # <<>>
              THEN <<[regex |-> search, price |-> OrZero(ParseFloat(search))]>>
              ELSE <<>>]

\* whether a document satisfies the query object
Matches(doc, query) ==
    /\ query.expr # <<>> => MonthExpr(doc, query.expr[1])
    /\ query.or # <<>> =>
          \/ RegexMatch(doc.title, query.or[1].regex)
          \/ RegexMatch(doc.description, query.or[1].regex)
          \/ PriceEq(doc.price, query.or[1].price)

\* page = 1, perPage = 10 when the parameter is absent
PageOf(page) == IF page = <<>> THEN 1 ELSE page[1]
PerPageOf(perPage) == IF perPage = <<>> THEN 10 ELSE perPage[1]

\* Find with the page taken as zero-based: skip(page * perPage)
FindSkipPage(coll, query, page, perPage) ==
    LET matched == SelectSeq(coll, LAMBDA d : Matches(d, query))
        skip == PageOf(page) * PerPageOf(perPage)
    IN  SubSeq(matched, skip + 1, Min(Len(matched), skip + PerPageOf(perPage)))

\* Transaction.find(query).skip((page - 1) * perPage).limit(parseInt(perPage))
Find(coll, query, page, perPage) ==
    LET matched == SelectSeq(coll, LAMBDA d : Matches(d, query))
        skip == (PageOf(page) - 1) * PerPageOf(perPage)
    IN  SubSeq(matched, skip + 1, Min(Len(matched), skip + PerPageOf(perPage)))

\* Transaction.countDocuments(query)
CountDocuments(coll, query) == Count(coll, LAMBDA d : Matches(d, query))

\* the body of the 200 response
TransactionsBody(found, total, page, perPage) ==
    [transactions |-> found,
     total |-> total,
     page |-> PageOf(page),
     perPage |-> PerPageOf(perPage),
     totalPages |-> Ceil(total, PerPageOf(perPage))]

----------------------------------------------------------------------------
(* The aggregations of /api/statistics, /api/bar-chart and /api/pie-chart *)

\* the $match stage the three pipelines share
MatchMonth(coll, month) ==
    SelectSeq(coll, LAMBDA d : MonthExpr(d, ParseInt(month)))

\* GroupStatistics with totalNotSoldItems counting every document
GroupStatisticsNoCond(docs) ==
    IF docs = <<>> THEN <<>>
    ELSE <<[_id |-> "null",
            totalSaleAmount |->
                SumSeq([i \in 1..Len(docs) |->
                           IF docs[i].sold = TRUE THEN docs[i].price ELSE 0]),
            totalSoldItems |-> Count(docs, LAMBDA d : d.sold = TRUE),
            totalNotSoldItems |-> Len(docs)]>>

\* $group with _id: null: one document, or none when nothing matched
GroupStatistics(docs) ==
    IF docs = <<>> THEN <<>>
    ELSE <<[_id |-> "null",
            totalSaleAmount |->
                SumSeq([i \in 1..Len(docs) |->
                           IF docs[i].sold = TRUE THEN docs[i].price ELSE 0]),
            totalSoldItems |-> Count(docs, LAMBDA d : d.sold = TRUE),
            totalNotSoldItems |-> Count(docs, LAMBDA d : d.sold = FALSE)]>>

\* stats[0] || { totalSaleAmount: 0, totalSoldItems: 0, totalNotSoldItems: 0 }
StatisticsBody(coll, month) ==
    LET stats == GroupStatistics(MatchMonth(coll, month))
    IN  IF stats # <<>> THEN stats[1]
        ELSE [totalSaleAmount |-> 0, totalSoldItems |-> 0, totalNotSoldItems |-> 0]

boundaries == <<0, 101, 201, 301, 401, 501, 601, 701, 801, 901>>

\* the bucket of a price: i when boundaries[i] <= price < boundaries[i+1],
\* else the default bucket, which sorts after the numbered ones
BucketOf(price) ==
    IF \E i \in 1..(Len(boundaries) - 1) :
           boundaries[i] <= price /\ price < boundaries[i + 1]
    THEN CHOOSE i \in 1..(Len(boundaries) - 1) :
           boundaries[i] <= price /\ price < boundaries[i + 1]
    ELSE Len(boundaries)

\* the bucket numbers from b on that hold a document, ascending
RECURSIVE NonEmptyBuckets(_, _)
NonEmptyBuckets(docs, b) ==
    IF b > Len(boundaries) THEN <<>>
    ELSE (IF \E i \in 1..Len(docs) : BucketOf(docs[i].price) = b
          THEN <<b>> ELSE <<>>) \o NonEmptyBuckets(docs, b + 1)

\* Bucket without the default bucket: only the numbered buckets are output
BucketNoDefault(docs) ==
    LET ids == SelectSeq(NonEmptyBuckets(docs, 1), LAMBDA b : b < Len(boundaries))
    IN  [k \in 1..Len(ids) |->
            [_id |-> ids[k],
             count |-> Count(docs, LAMBDA d : BucketOf(d.price) = ids[k])]]

\* $bucket: one { _id, count } per bucket that holds a document, by _id (the
\* bucket number stands for the _id: the lower boundary, or '901-above')
Bucket(docs) ==
    LET ids == NonEmptyBuckets(docs, 1)
    IN  [k \in 1..Len(ids) |->
            [_id |-> ids[k],
             count |-> Count(docs, LAMBDA d : BucketOf(d.price) = ids[k])]]

ranges == <<"0 - 100", "101 - 200", "201 - 300", "301 - 400", "401 - 500",
            "501 - 600", "601 - 700", "701 - 800", "801 - 900", "901 - above">>

\* result, after barChartData.forEach((item, index) => ...)
BarChartBody(coll, month) ==
    LET barChartData == Bucket(MatchMonth(coll, month))
    IN  [index \in 1..Len(ranges) |->
            [range |-> ranges[index],
             count |-> IF index <= Len(barChartData)
                       THEN barChartData[index].count ELSE 0]]

\* GroupCategory with the category compared without regard to case
GroupCategoryFolded(docs) ==
    LET Fold(c) == IF c = "Men" THEN "men" ELSE c
    IN  { [_id |-> c, count |-> Count(docs, LAMBDA d : Fold(d.category) = c)] :
            c \in { Fold(docs[i].category) : i \in 1..Len(docs) } }

\* $group with _id: '$category' (the order of the groups is not specified:
\* the result is kept as a set)
GroupCategory(docs) ==
    { [_id |-> c, count |-> Count(docs, LAMBDA d : d.category = c)] :
        c \in { docs[i].category : i \in 1..Len(docs) } }

PieChartBody(coll, month) == GroupCategory(MatchMonth(coll, month))

\* res.status(500).json({ error: ... }) of a catch block
Error500(message) == [status |-> 500, body |-> [error |-> message]]
Ok200(body) == [status |-> 200, body |-> body]

----------------------------------------------------------------------------
(* SpecViews: one request served against a loaded collection, with no other *)
(* request in flight.  ok says whether the store answers the handler's      *)
(* queries or throws.                                                       *)

NoHandlers == <<>>
DashIdle ==
    /\ searchQuery = <<>> /\ selectedMonth = 3 /\ currentPage = 1
    /\ totalPages = 1 /\ transactions = <<>> /\ inflight = <<>>
    /\ fetchFailed = FALSE

InitViews ==
    /\ Transaction \in SeqsUpTo(Catalogue, MaxRecords) \cup {TwelveDocs}
    /\ res = [endpoint |-> "none"]
    /\ handlers = NoHandlers
    /\ DashIdle

ViewFrame ==
    /\ res.endpoint = "none"
    /\ UNCHANGED <<Transaction, handlers>>
    /\ UNCHANGED dashVars

GetTransactions(month, search, page, perPage, ok) ==
    LET query == Query(month, search)
        found == Find(Transaction, query, page, perPage)
        total == CountDocuments(Transaction, query)
    IN  res' = [endpoint |-> "transactions",
                req |-> [month |-> month, search |-> search,
                         page |-> page, perPage |-> perPage]]
               @@ (IF ok THEN Ok200(TransactionsBody(found, total, page, perPage))
                   ELSE Error500("Failed to fetch transactions"))

GetStatistics(month, ok) ==
    res' = [endpoint |-> "statistics", req |-> [month |-> month]]
           @@ (IF ok THEN Ok200(StatisticsBody(Transaction, month))
               ELSE Error500("Failed to fetch statistics"))

GetBarChart(month, ok) ==
    res' = [endpoint |-> "bar-chart", req |-> [month |-> month]]
           @@ (IF ok THEN Ok200(BarChartBody(Transaction, month))
               ELSE Error500("Failed to fetch bar chart data"))

GetPieChart(month, ok) ==
    res' = [endpoint |-> "pie-chart", req |-> [month |-> month]]
           @@ (IF ok THEN Ok200(PieChartBody(Transaction, month))
               ELSE Error500("Failed to fetch pie chart data"))

ViewTransactions ==
    /\ ViewFrame
    /\ \E month \in MonthParams, search \in SearchTexts,
          page \in PageParams, perPage \in PerPageParams, ok \in BOOLEAN :
           GetTransactions(month, search, page, perPage, ok)

ViewStatistics ==
    /\ ViewFrame
    /\ \E month \in MonthParams, ok \in BOOLEAN : GetStatistics(month, ok)

ViewBarChart ==
    /\ ViewFrame
    /\ \E month \in MonthParams, ok \in BOOLEAN : GetBarChart(month, ok)

ViewPieChart ==
    /\ ViewFrame
    /\ \E month \in MonthParams, ok \in BOOLEAN : GetPieChart(month, ok)

NextViews ==
    \/ ViewTransactions
    \/ ViewStatistics
    \/ ViewBarChart
    \/ ViewPieChart

SpecViews == InitViews /\ [][NextViews]_vars

----------------------------------------------------------------------------
(* SpecServer: the handlers of src/app.js running concurrently.  handlers   *)
(* holds every request received, in order of arrival; a handler advances    *)
(* from one await to the next in one step.  Each store call either answers  *)
(* (ok) or throws.  seen records the collection each query of a handler     *)
(* read, failed whether one of its store calls threw.  deleteMany and       *)
(* insertMany each take effect at once, and a call that throws changes      *)
(* nothing: the store is given every atomicity a single call can have.      *)
(* The loopback fetch calls of /api/combined-data always resolve: the       *)
(* server they reach is the one running the handler.                        *)

ServerMonths == { <<m>> : m \in Months }

InitServer ==
    /\ Transaction \in Datasets
    /\ res = [endpoint |-> "none"]
    /\ handlers = NoHandlers
    /\ DashIdle

ServerFrame == UNCHANGED res /\ UNCHANGED dashVars

TopLevel == { i \in 1..Len(handlers) : handlers[i].parent = 0 }

NewHandler(kind, month, parent) ==
    [kind |-> kind, pc |-> "start", month |-> month, parent |-> parent,
     seen |-> <<>>, failed |-> FALSE, res |-> [status |-> 0]]

At(i, kind, pc) ==
    /\ i \in 1..Len(handlers)
    /\ handlers[i].kind = kind
    /\ handlers[i].pc = pc

\* the handler sends its response
Respond(h, response) == [h EXCEPT !.pc = "done", !.res = response]

\* the catch block of a handler whose store call threw
Caught(h, message) ==
    [h EXCEPT !.pc = "done", !.failed = TRUE, !.res = Error500(message)]

\* a client sends a request to one of the six routes
Receive(kind, month) ==
    /\ Cardinality(TopLevel) < MaxRequests
    /\ Len(handlers) + (IF kind = "combined-data" THEN 5 ELSE 1) <= MaxHandlers
    /\ handlers' = Append(handlers, NewHandler(kind, month, 0))
    /\ UNCHANGED Transaction
    /\ ServerFrame

\* /api/initialize: await fetch(...), await response.json()
InitializeFetch(i, data, ok) ==
    /\ At(i, "initialize", "start")
    /\ handlers' = [handlers EXCEPT ![i] =
          IF ok THEN [@ EXCEPT !.pc = "deleteMany"] @@ [data |-> data]
          ELSE Respond(@, Error500("Failed to initialize database"))]
    /\ UNCHANGED Transaction
    /\ ServerFrame

\* await Transaction.deleteMany({})
InitializeDeleteMany(i, ok) ==
    /\ At(i, "initialize", "deleteMany")
    /\ IF ok
       THEN /\ Transaction' = <<>>
            /\ handlers' = [handlers EXCEPT ![i].pc = "insertMany"]
       ELSE /\ UNCHANGED Transaction
            /\ handlers' = [handlers EXCEPT ![i] =
                                Caught(@, "Failed to initialize database")]
    /\ ServerFrame

\* await Transaction.insertMany(data), then res.json({ message })
InitializeInsertMany(i, ok) ==
    /\ At(i, "initialize", "insertMany")
    /\ IF ok
       THEN /\ Transaction' = Transaction \o handlers[i].data
            /\ handlers' = [handlers EXCEPT ![i] =
                  Respond(@, Ok200([message |-> "Database initialized successfully"]))]
       ELSE /\ UNCHANGED Transaction
            /\ handlers' = [handlers EXCEPT ![i] =
                                Caught(@, "Failed to initialize database")]
    /\ ServerFrame

\* /api/transactions?month=...: await Transaction.find(query).skip().limit()
TransactionsFind(i, ok) ==
    /\ At(i, "transactions", "start")
    /\ handlers' = [handlers EXCEPT ![i] =
          IF ok
          THEN [@ EXCEPT !.pc = "countDocuments",
                         !.seen = Append(@, Transaction)]
               @@ [found |-> Find(Transaction, Query(handlers[i].month, <<>>),
                                  <<>>, <<>>)]
          ELSE Caught(@, "Failed to fetch transactions")]
    /\ UNCHANGED Transaction
    /\ ServerFrame

\* await Transaction.countDocuments(query), then res.json({ ... })
TransactionsCount(i, ok) ==
    /\ At(i, "transactions", "countDocuments")
    /\ handlers' = [handlers EXCEPT ![i] =
          IF ok
          THEN Respond([@ EXCEPT !.seen = Append(@, Transaction)],
                       Ok200(TransactionsBody(
                           handlers[i].found,
                           CountDocuments(Transaction, Query(handlers[i].month, <<>>)),
                           <<>>, <<>>)))
          ELSE Caught(@, "Failed to fetch transactions")]
    /\ UNCHANGED Transaction
    /\ ServerFrame

\* /api/statistics, /api/bar-chart, /api/pie-chart: one aggregate each
Aggregate(i, kind, body, message, ok) ==
    /\ At(i, kind, "start")
    /\ handlers' = [handlers EXCEPT ![i] =
          IF ok THEN Respond([@ EXCEPT !.seen = Append(@, Transaction)], Ok200(body))
          ELSE Caught(@, message)]
    /\ UNCHANGED Transaction
    /\ ServerFrame

Statistics(i, ok) ==
    Aggregate(i, "statistics", StatisticsBody(Transaction, handlers[i].month),
              "Failed to fetch statistics", ok)

BarChart(i, ok) ==
    Aggregate(i, "bar-chart", BarChartBody(Transaction, handlers[i].month),
              "Failed to fetch bar chart data", ok)

PieChart(i, ok) ==
    Aggregate(i, "pie-chart", PieChartBody(Transaction, handlers[i].month),
              "Failed to fetch pie chart data", ok)

\* /api/combined-data: the four fetch calls to the server's own routes
CombinedFetch(i) ==
    /\ At(i, "combined-data", "start")
    /\ handlers' = [handlers EXCEPT ![i].pc = "await"]
                    \o << NewHandler("transactions", handlers[i].month, i),
                          NewHandler("statistics", handlers[i].month, i),
                          NewHandler("bar-chart", handlers[i].month, i),
                          NewHandler("pie-chart", handlers[i].month, i) >>
    /\ UNCHANGED Transaction
    /\ ServerFrame

\* the handler that answers the fetch to the given route made by handler i
Sub(i, kind) ==
    CHOOSE j \in 1..Len(handlers) :
        handlers[j].parent = i /\ handlers[j].kind = kind

\* Promise.all resolves: every fetch resolved (whatever its HTTP status) and
\* .then(res => res.json()) gave the parsed body; then res.json({ ... })
CombinedRespond(i) ==
    /\ At(i, "combined-data", "await")
    /\ \A j \in 1..Len(handlers) :
          handlers[j].parent = i => handlers[j].pc = "done"
    /\ handlers' = [handlers EXCEPT ![i] =
          Respond(@, Ok200([transactions |-> handlers[Sub(i, "transactions")].res.body,
                            statistics |-> handlers[Sub(i, "statistics")].res.body,
                            barChart |-> handlers[Sub(i, "bar-chart")].res.body,
                            pieChart |-> handlers[Sub(i, "pie-chart")].res.body]))]
    /\ UNCHANGED Transaction
    /\ ServerFrame

Routes == {"initialize", "transactions", "statistics", "bar-chart",
           "pie-chart", "combined-data"}

NextServer ==
    \/ \E kind \in Routes, month \in ServerMonths : Receive(kind, month)
    \/ \E i \in 1..Len(handlers), data \in Datasets, ok \in BOOLEAN :
          InitializeFetch(i, data, ok)
    \/ \E i \in 1..Len(handlers), ok \in BOOLEAN : InitializeDeleteMany(i, ok)
    \/ \E i \in 1..Len(handlers), ok \in BOOLEAN : InitializeInsertMany(i, ok)
    \/ \E i \in 1..Len(handlers), ok \in BOOLEAN : TransactionsFind(i, ok)
    \/ \E i \in 1..Len(handlers), ok \in BOOLEAN : TransactionsCount(i, ok)
    \/ \E i \in 1..Len(handlers), ok \in BOOLEAN : Statistics(i, ok)
    \/ \E i \in 1..Len(handlers), ok \in BOOLEAN : BarChart(i, ok)
    \/ \E i \in 1..Len(handlers), ok \in BOOLEAN : PieChart(i, ok)
    \/ \E i \in 1..Len(handlers) : CombinedFetch(i)
    \/ \E i \in 1..Len(handlers) : CombinedRespond(i)

SpecServer == InitServer /\ [][NextServer]_vars

----------------------------------------------------------------------------
(* SpecDashboard: the TransactionDashboard component against a server whose *)
(* collection does not change.  An event handler, the render it causes and  *)
(* the effect that render schedules are one step.  inflight holds, for each *)
(* fetchTransactions call awaiting its fetch, the page it was called with   *)
(* and the searchQuery and selectedMonth its closure captured.  (The        *)
(* statistics and bar-chart cells are written by their own fetches and read *)
(* by nothing here.)                                                        *)

\* the server's collection: two pages of month 3, one page of month 4
DashData == TwelveDocs \o <<Doc3, Doc4>>
DashSearches == { <<>>, <<"1", "1">> }

InitDashboard ==
    /\ Transaction = DashData
    /\ res = [endpoint |-> "none"]
    /\ handlers = NoHandlers
    /\ searchQuery = <<>>
    /\ selectedMonth = 3
    /\ currentPage = 1
    /\ totalPages = 1
    /\ transactions = <<>>
    /\ fetchFailed = FALSE
       \* the effect of the first render: fetchTransactions(currentPage)
    /\ inflight = << [page |-> 1, searchQuery |-> <<>>, selectedMonth |-> 3] >>

DashFrame == UNCHANGED <<Transaction, res, handlers>>

\* what GET /api/transactions?page=..&perPage=10&search=..&month=.. answers
Listing(page, search, month) ==
    LET query == Query(<<month>>, search)
    IN  TransactionsBody(Find(Transaction, query, <<page>>, <<10>>),
                         CountDocuments(Transaction, query), <<page>>, <<10>>)

\* the call fetchTransactions(page) made by a render with the given state
Call(page, search, month) ==
    [page |-> page, searchQuery |-> search, selectedMonth |-> month]

\* the effect: runs fetchTransactions(page) after a render in which
\* fetchTransactions (its searchQuery, selectedMonth) or currentPage changed
Effect(changed, page, search, month) ==
    IF changed THEN <<Call(page, search, month)>> ELSE <<>>

handleSearch(query) ==
    /\ Len(inflight) + 2 <= MaxInflight
    /\ searchQuery' = query
    /\ inflight' = inflight
                    \o <<Call(1, searchQuery, selectedMonth)>>
                    \o Effect(query # searchQuery, currentPage, query, selectedMonth)
    /\ UNCHANGED <<selectedMonth, currentPage, totalPages, transactions, fetchFailed>>
    /\ DashFrame

handleMonthSelect(month) ==
    /\ Len(inflight) + 2 <= MaxInflight
    /\ selectedMonth' = month
    /\ inflight' = inflight
                    \o <<Call(1, searchQuery, selectedMonth)>>
                    \o Effect(month # selectedMonth, currentPage, searchQuery, month)
    /\ UNCHANGED <<searchQuery, currentPage, totalPages, transactions, fetchFailed>>
    /\ DashFrame

handlePageChange(newPage) ==
    /\ Len(inflight) + 1 <= MaxInflight
    /\ newPage >= 1 /\ newPage <= totalPages
    /\ currentPage' = newPage
    /\ inflight' = inflight
                    \o Effect(newPage # currentPage, newPage, searchQuery, selectedMonth)
    /\ UNCHANGED <<searchQuery, selectedMonth, totalPages, transactions, fetchFailed>>
    /\ DashFrame

Remove(seq, k) == SubSeq(seq, 1, k - 1) \o SubSeq(seq, k + 1, Len(seq))

\* fetchTransactions resumes after its awaits with the response
fetchTransactions(k) ==
    /\ k \in 1..Len(inflight)
    /\ LET call == inflight[k]
           data == Listing(call.page, call.searchQuery, call.selectedMonth)
       IN  /\ transactions' = data.transactions
           /\ totalPages' = data.totalPages
           /\ currentPage' = call.page
           /\ inflight' = Remove(inflight, k)
                           \o Effect(call.page # currentPage, call.page,
                                     searchQuery, selectedMonth)
    /\ UNCHANGED <<searchQuery, selectedMonth, fetchFailed>>
    /\ DashFrame

\* fetch rejects: the catch block logs and changes nothing
fetchTransactionsCaught(k) ==
    /\ k \in 1..Len(inflight)
    /\ inflight' = Remove(inflight, k)
    /\ fetchFailed' = TRUE
    /\ UNCHANGED <<searchQuery, selectedMonth, currentPage, totalPages, transactions>>
    /\ DashFrame

NextDashboard ==
    \/ \E query \in DashSearches : handleSearch(query)
    \/ \E month \in Months : handleMonthSelect(month)
    \/ \E newPage \in {currentPage - 1, currentPage + 1} : handlePageChange(newPage)
    \/ \E k \in 1..MaxInflight : fetchTransactions(k)
    \/ \E k \in 1..MaxInflight : fetchTransactionsCaught(k)

SpecDashboard == InitDashboard /\ [][NextDashboard]_vars

----------------------------------------------------------------------------
(* Properties of the views *)

\* the documents of the collection whose dateOfSale falls in the month asked
\* for, whatever the year
MonthMatching(coll, month) ==
    SelectSeq(coll, LAMBDA d : month # <<>> /\ d.dateOfSale.month = month[1])

RECURSIVE SumCounts(_)
SumCounts(S) ==
    IF S = {} THEN 0
    ELSE LET x == CHOOSE x \in S : TRUE IN x.count + SumCounts(S \ {x})

Answered(endpoint) ==
    res.endpoint = endpoint /\ res.status = 200

\* the price range of the i-th entry of the bar chart: [0,101), [101,201),
\* ..., [801,901), and 901 or more for the tenth
InRange(i, price) ==
    IF i = 10 THEN price >= 901
    ELSE (IF i = 1 THEN 0 ELSE 100 * (i - 1) + 1) <= price /\ price < 100 * i + 1

RangeLabels ==
    <<"0 - 100", "101 - 200", "201 - 300", "301 - 400", "401 - 500",
      "501 - 600", "601 - 700", "701 - 800", "801 - 900", "901 - above">>

\* C2: /api/bar-chart returns the ten entries in the fixed order, and the
\* count of each entry is the number of month-matching documents whose price
\* lies in that entry's own range, also when lower ranges hold no document.
C2_BarChartCountsPerRange ==
    Answered("bar-chart") =>
        /\ Len(res.body) = 10
        /\ \A i \in 1..10 :
              /\ res.body[i].range = RangeLabels[i]
              /\ res.body[i].count =
                    Count(MonthMatching(Transaction, res.req.month),
                          LAMBDA d : InRange(i, d.price))

\* C7: the ten counts of /api/bar-chart sum to the number of month-matching
\* documents.
C7_BarChartCountsSumToTotal ==
    Answered("bar-chart") =>
        SumSeq([i \in 1..Len(res.body) |-> res.body[i].count])
            = Len(MonthMatching(Transaction, res.req.month))

\* C7 witness: a bar chart over documents of the catch-all range and of a
\* lower range.
C7_Witness ==
    /\ Answered("bar-chart")
    /\ LET docs == MonthMatching(Transaction, res.req.month)
       IN  /\ \E i \in 1..Len(docs) : docs[i].price >= 901
           /\ \E i \in 1..Len(docs) : docs[i].price < 101
           /\ Len(docs) >= 3

\* C8: /api/statistics counts the month-matching documents with sold = true
\* and with sold = false, the two counts sum to the number of month-matching
\* documents, and with no month-matching document the result is all zero.
C8_StatisticsCounts ==
    Answered("statistics") =>
        LET docs == MonthMatching(Transaction, res.req.month)
        IN  /\ res.body.totalSoldItems = Count(docs, LAMBDA d : d.sold)
            /\ res.body.totalNotSoldItems = Count(docs, LAMBDA d : ~d.sold)
            /\ res.body.totalSoldItems + res.body.totalNotSoldItems = Len(docs)
            /\ docs = <<>> =>
                  res.body = [totalSaleAmount |-> 0, totalSoldItems |-> 0,
                              totalNotSoldItems |-> 0]

\* C8 witness: statistics over sold and unsold documents of the month, with
\* a document of another month in the collection.
C8_Witness ==
    /\ Answered("statistics")
    /\ res.body.totalSoldItems >= 1
    /\ res.body.totalNotSoldItems >= 1
    /\ Len(MonthMatching(Transaction, res.req.month)) < Len(Transaction)

\* C9: /api/pie-chart returns one pair per distinct category (case-sensitive)
\* among the month-matching documents, none for any other category, each
\* with the number of its documents, and the counts sum to the number of
\* month-matching documents.
C9_PieChartPerCategory ==
    Answered("pie-chart") =>
        LET docs == MonthMatching(Transaction, res.req.month)
            cats == { docs[i].category : i \in 1..Len(docs) }
        IN  /\ { g._id : g \in res.body } = cats
            /\ Cardinality(res.body) = Cardinality(cats)
            /\ \A g \in res.body :
                  g.count = Count(docs, LAMBDA d : d.category = g._id)
            /\ SumCounts(res.body) = Len(docs)

\* C9 witness: a pie chart with separate pairs for "men" and "Men", while a
\* category of another month is left out.
C9_Witness ==
    /\ Answered("pie-chart")
    /\ {"men", "Men"} \subseteq { g._id : g \in res.body }
    /\ \E i \in 1..Len(Transaction) :
          Transaction[i].category \notin { g._id : g \in res.body }

\* the page and perPage a request asks for (1 and 10 when it names none)
AskedPage == IF res.req.page = <<>> THEN 1 ELSE res.req.page[1]
AskedPerPage == IF res.req.perPage = <<>> THEN 10 ELSE res.req.perPage[1]

\* the documents the request's filter selects, in storage order
Selected ==
    SelectSeq(Transaction,
              LAMBDA d : Matches(d, Query(res.req.month, res.req.search)))

\* C5: /api/transactions returns the matching documents at storage-order
\* positions (page-1)*perPage .. (page-1)*perPage+perPage-1 (counted from 0),
\* totalPages is ceil(total/perPage), and a page beyond totalPages gets an
\* empty slice in a normal response.
C5_PageSlice ==
    Answered("transactions") =>
        LET first == (AskedPage - 1) * AskedPerPage
            slice == res.body.transactions
            rest == Len(Selected) - first
        IN  /\ Len(slice) = (IF rest <= 0 THEN 0 ELSE Min(AskedPerPage, rest))
            /\ \A k \in 1..Len(slice) : slice[k] = Selected[first + k]
            /\ res.body.totalPages * AskedPerPage >= res.body.total
            /\ (res.body.totalPages - 1) * AskedPerPage < res.body.total
            /\ AskedPage > res.body.totalPages => slice = <<>>

\* C5 witness: page 5 with perPage 10 over 12 matches: totalPages 2, empty
\* slice, status 200.
C5_Witness ==
    /\ Answered("transactions")
    /\ res.req.page = <<5>>
    /\ AskedPerPage = 10
    /\ res.body.total = 12
    /\ res.body.totalPages = 2
    /\ res.body.transactions = <<>>

\* text contains pat, letters compared without regard to case
Contains(text, pat) ==
    \E i \in 0..(Len(text) - Len(pat)) :
        \A k \in 1..Len(pat) : Lower(pat[k]) = Lower(text[i + k])

\* the numeric parse of a search text as the specification words it: the
\* number the text spells, and 0 for a text that is not a number
NumericParse(s) ==
    LET intLen == DigitRun(s, 1)
        fracLen == IF intLen < Len(s) /\ s[intLen + 1] = "."
                   THEN DigitRun(s, intLen + 2) ELSE 0
        spelled == intLen + (IF fracLen > 0 THEN 1 + fracLen ELSE 0)
    IN  IF spelled = Len(s) /\ spelled > 0 THEN ParseFloat(s)
        ELSE [nan |-> FALSE, mant |-> 0, scale |-> 0]

Satisfies(d, month, search) ==
    /\ month # <<>> => d.dateOfSale.month = month[1]
    /\ search # <<>> =>
          \/ Contains(d.title, search)
          \/ Contains(d.description, search)
          \/ PriceEq(d.price, NumericParse(search))

----------------------------------------------------------------------------
(* Properties of the concurrent server *)

\* C1: whatever the interleaving of /api/initialize with the read routes,
\* every query of a read sees a complete record set, the old one or a newly
\* loaded one: never an empty or partly loaded collection, never a mixture.
C1_ReadsSeeCompleteSet ==
    \A i \in 1..Len(handlers) :
        \A k \in 1..Len(handlers[i].seen) : handlers[i].seen[k] \in Datasets

\* C3: a request whose store query failed is answered 500 with an
\* { error } body and nothing else; so is /api/combined-data when one of its
\* four constituent views failed.
C3_FailureAnswers500 ==
    \A i \in 1..Len(handlers) :
        (/\ handlers[i].pc = "done"
         /\ \/ handlers[i].failed
            \/ \E j \in 1..Len(handlers) :
                  handlers[j].parent = i /\ handlers[j].failed) =>
            /\ handlers[i].res.status = 500
            /\ DOMAIN handlers[i].res.body = {"error"}

\* C4: the total of /api/transactions is the number of documents satisfying
\* the filter in the record set the returned page was sliced from.
C4_TotalCountsThePagedSet ==
    \A i \in 1..Len(handlers) :
        (/\ handlers[i].kind = "transactions"
         /\ handlers[i].pc = "done"
         /\ handlers[i].res.status = 200) =>
            handlers[i].res.body.total =
                CountDocuments(handlers[i].seen[1], Query(handlers[i].month, <<>>))

----------------------------------------------------------------------------
(* Property of the dashboard *)

\* C10: once every fetchTransactions call has received its response, the
\* table, totalPages and currentPage shown are those of the listing for the
\* current searchQuery, selectedMonth and currentPage.
C10_DisplayMatchesCurrentFilter ==
    (inflight = <<>> /\ ~fetchFailed) =>
        LET data == Listing(currentPage, searchQuery, selectedMonth)
        IN  /\ transactions = data.transactions
            /\ totalPages = data.totalPages

====
